---- MODULE Spec2Model ----
(***************************************************************************)
(* Doc-JAR clinical decision support: the /analyze request pipeline.       *)
(*   app/main.py                          analyze_patient                  *)
(*   app/workflows/diagnosis_workflow.py  run_diagnostic                   *)
(*   app/workflows/treatment_workflow.py  get_treatment_plan               *)
(*   app/services/json_db_service.py      search_diseases_by_symptoms, ... *)
(*   app/services/gemini_service.py       the reasoning calls              *)
(*                                                                         *)
(* Scores and distances are exact decimals counted in hundredths           *)
(* (0.8 is 80); binary floating-point rounding is not modelled.            *)
(* Python's None is the empty sequence <<>> where the value is optional.   *)
(***************************************************************************)
EXTENDS Integers, Sequences, FiniteSets, TLC

\* ------------------------------------------------------------- bounds
\* longest hit list the index answers with in the model (the code asks for TopK)
MaxHits == 3
\* most candidates of a hit list that names every disease once
MaxCandidates == 4
\* longest medicine candidate list in the model (the code asks for MedTopK)
MaxMeds == 2

\* ------------------------------------------------- program constants
Unit == 100             \* 1.0 of "score = 1.0 - distance"
TopK == 5               \* n_results of the disease query
MedTopK == 10           \* n_results of the medicine query
Tier1Top == 80          \* top_score > 0.8
Tier1Gap == 20          \* top_score - second > 0.2
Tier2Top == 65          \* top_score > 0.65
Tier2Gap == 15          \* top_score - second > 0.15
Tier3Top == 50          \* top_score > 0.5
TopCandidates == 3      \* disease_results[:3]

\* ------------------------------------------------ collaborator values
Diseases == {"D1", "D2", "D3"}
Medicines == {"M1", "M2", "M3"}
\* distances the index may report: scores 0.9 0.7 0.65 0.6 0.55 0.5 0.3
\* (0.8 is the sum of 0.5 and 0.3)
Distances == {10, 30, 35, 40, 45, 50, 70}
\* symptom lists the extraction may produce
SymptomLists == {<<>>, <<"fever", "cough">>}
\* conflict_reason texts of a safety verdict; "None" is JSON null, "" the empty string
Reasons == {"reason1", "reason2"}
NoneStr == "None"

Min(a, b) == IF a < b THEN a ELSE b

\* a hit of disease_collection.query: metadatas[0][i]['disease_id'], distances[0][i]
Hit == [disease_id : Diseases, distance : Distances]
NarrowHitLists == UNION {[1..n -> Hit] : n \in 0..Min(MaxHits, TopK)}

\* hit lists with more candidates than the loop over disease_results[:3] takes:
\* one hit for each of n diseases, at scores 0.6 or 0.5
MoreDiseases == Diseases \cup {"D4", "D5"}
WideDistances == {40, 50}
WideHit == [disease_id : MoreDiseases, distance : WideDistances]
WideHitLists ==
    UNION {{h \in [1..n -> WideHit] :
               \A a, b \in 1..n : a # b => h[a].disease_id # h[b].disease_id}
           : n \in (TopCandidates + 1)..Min(MaxCandidates, TopK)}

HitLists == NarrowHitLists \cup WideHitLists

\* the medicine ids of a query answer: list(set(...)), distinct ids in any order
MedicineLists ==
    UNION {{m \in [1..n -> Medicines] : \A a, b \in 1..n : a # b => m[a] # m[b]}
           : n \in 0..Min(MaxMeds, MedTopK)}

\* ------------------------------------------- search_diseases_by_symptoms
\* score = 1.0 - distance
Score(distance) == Unit - distance

\* if disease_id not in disease_scores: disease_scores[disease_id] = 0
\* disease_scores[disease_id] += score        (a dict keeps insertion order)
AccumulateSum(scores, hit) ==
    IF \E j \in 1..Len(scores) : scores[j][1] = hit.disease_id
    THEN [j \in 1..Len(scores) |->
             IF scores[j][1] = hit.disease_id
             THEN <<scores[j][1], scores[j][2] + Score(hit.distance)>>
             ELSE scores[j]]
    ELSE Append(scores, <<hit.disease_id, 0 + Score(hit.distance)>>)

\* a slip that keeps the best hit of an id instead of adding the hits up
AccumulateMax(scores, hit) ==
    IF \E j \in 1..Len(scores) : scores[j][1] = hit.disease_id
    THEN [j \in 1..Len(scores) |->
             IF scores[j][1] = hit.disease_id /\ Score(hit.distance) > scores[j][2]
             THEN <<scores[j][1], Score(hit.distance)>>
             ELSE scores[j]]
    ELSE Append(scores, <<hit.disease_id, Score(hit.distance)>>)

Accumulate(scores, hit) == AccumulateSum(scores, hit)

\* for i, meta in enumerate(results['metadatas'][0]): ...
RECURSIVE AggregateFrom(_, _, _)
AggregateFrom(hitList, n, scores) ==
    IF n > Len(hitList) THEN scores
    ELSE AggregateFrom(hitList, n + 1, Accumulate(scores, hitList[n]))

AggregateScores(hitList) == AggregateFrom(hitList, 1, <<>>)

\* sorted(..., key=item[1], reverse=True) is stable: an item goes behind every
\* earlier item whose score is at least its own
InsertDescTiesReversed(sorted, item) ==
    LET n == Cardinality({j \in 1..Len(sorted) : sorted[j][2] > item[2]})
    IN  SubSeq(sorted, 1, n) \o <<item>> \o SubSeq(sorted, n + 1, Len(sorted))

InsertDesc(sorted, item) ==
    LET n == Cardinality({j \in 1..Len(sorted) : sorted[j][2] >= item[2]})
    IN  SubSeq(sorted, 1, n) \o <<item>> \o SubSeq(sorted, n + 1, Len(sorted))

RECURSIVE SortFrom(_, _, _)
SortFrom(items, n, sorted) ==
    IF n > Len(items) THEN sorted
    ELSE SortFrom(items, n + 1, InsertDesc(sorted, items[n]))

SortedByScoreDesc(items) == SortFrom(items, 1, <<>>)

\* lines 111-122: the value search_diseases_by_symptoms returns for a hit list
RankDiseases(hitList) == SortedByScoreDesc(AggregateScores(hitList))

\* ------------------------------------------------------ run_diagnostic
\* "if not symptoms" (diagnosis_workflow.py:14, json_db_service.py:99)
NoSymptomsNever(s) == FALSE

NoSymptoms(s) == s = <<>>

\* lines 29-37: the branch that sets is_confident (0: none of them)
\*   if top_score > 0.8:
\*       if len(disease_results) == 1 or (top_score - disease_results[1][1] > 0.2):
\*   elif top_score > 0.65 and len(disease_results) > 1 and (... > 0.15):
\*   elif top_score > 0.5 and len(disease_results) == 1:
ConfidenceTierCode(results) ==
    LET top_score == results[1][2]
    IN  IF top_score > Tier1Top
        THEN IF Len(results) = 1 \/ top_score - results[2][2] > Tier1Gap
             THEN 1 ELSE 0
        ELSE IF top_score > Tier2Top /\ Len(results) > 1
                /\ top_score - results[2][2] > Tier2Gap
             THEN 2
        ELSE IF top_score > Tier3Top /\ Len(results) = 1
             THEN 3
        ELSE 0

\* slips of the gate, one per branch
\* tier 1 without its "only one candidate" alternative
ConfidenceTierNoLone(results) ==
    LET top_score == results[1][2]
    IN  IF top_score > Tier1Top
        THEN IF Len(results) > 1 /\ top_score - results[2][2] > Tier1Gap
             THEN 1 ELSE 0
        ELSE ConfidenceTierCode(results)

\* the last elif left out
ConfidenceTierNoTier3(results) ==
    IF ConfidenceTierCode(results) = 3 THEN 0 ELSE ConfidenceTierCode(results)

\* tier 2 without the gap condition
ConfidenceTierNoGap(results) ==
    LET top_score == results[1][2]
    IN  IF top_score <= Tier1Top /\ top_score > Tier2Top /\ Len(results) > 1
        THEN 2 ELSE ConfidenceTierCode(results)

\* tier 3 with >= in place of >
ConfidenceTierNonStrict(results) ==
    LET top_score == results[1][2]
    IN  IF ConfidenceTierCode(results) = 0 /\ top_score >= Tier3Top /\ Len(results) = 1
        THEN 3 ELSE ConfidenceTierCode(results)

ConfidenceTier(results) == ConfidenceTierCode(results)

\* ------------------------------------------------------------- values
Collaborators ==
    {"extract_entities", "embed_query", "disease_query", "get_disease_details",
     "get_differential_reasoning", "search_medicines_by_disease",
     "get_medicine_details", "run_safety_check", "get_full_treatment_plan"}

\* the dict run_diagnostic returns; status "NONE" before it returned
NoDiag ==
    [status |-> "NONE", diagnosis |-> "", diagnosis_id |-> "", confidence |-> 0,
     required_tests |-> [kind |-> "list", items |-> <<>>]]

\* what json.loads gives get_differential_reasoning: a list of strings, or other JSON
AdvisoryTests == [kind |-> "list", items |-> <<"Further clinical evaluation needed.">>]
ErrorTests == [kind |-> "list", items |-> <<"Error processing diagnostic tests">>]
SelectedTests == [kind |-> "list", items |-> <<"test_name">>]
MalformedTests == [kind |-> "not_a_list", items |-> <<>>]

\* what _call_gemini_json gives run_safety_check:
\*   {"error": ...} | JSON that is no object | {"is_safe": b, "conflict_reason": r}
\*   has_reason FALSE: the object has no "conflict_reason" key
SafetyReports ==
    {[kind |-> "error", is_safe |-> FALSE, has_reason |-> FALSE, conflict_reason |-> ""],
     [kind |-> "not_a_dict", is_safe |-> FALSE, has_reason |-> FALSE, conflict_reason |-> ""],
     [kind |-> "verdict", is_safe |-> TRUE, has_reason |-> TRUE, conflict_reason |-> NoneStr],
     [kind |-> "verdict", is_safe |-> FALSE, has_reason |-> FALSE, conflict_reason |-> ""]}
    \cup {[kind |-> "verdict", is_safe |-> FALSE, has_reason |-> TRUE, conflict_reason |-> r]
          : r \in Reasons \cup {NoneStr, ""}}

\* Python truthiness of a conflict reason: None and "" are falsy
Falsy(reason) == reason \in {NoneStr, ""}

\* safety_report.get('conflict_reason', 'Unknown conflict')
ConflictReason(safety_report) ==
    IF safety_report.has_reason THEN safety_report.conflict_reason ELSE "Unknown conflict"

\* Prescription(medicine_name, dosage, frequency, duration); the last three agree
Prescription(name, dosage) == [medicine_name |-> name, dosage |-> dosage]

\* FinalDiagnosisReport; an Optional field is <<>> (None) or <<value>>
Report(diagnosis, confidence, tests, prescription, warning, alternative) ==
    [diagnosis |-> diagnosis, confidence_score |-> confidence,
     follow_up_tests_required |-> tests, prescription |-> prescription,
     contraindication_warning |-> warning, alternative_prescription |-> alternative]

Warning(text, detail) == <<[text |-> text, detail |-> detail]>>

NoMatchTests ==
    <<"Symptoms do not match known conditions in the database. Please consult a doctor.">>

VARIABLES
    pc,                 \* position of the call in progress
    caller,             \* the operation that was called: analyze_patient, or
                        \* search_diseases_by_symptoms on its own
    profile,            \* kind of value extract_entities returned
    symptoms,           \* profile.get("symptoms", [])
    hits,               \* results of disease_collection.query
    disease_results,    \* value of search_diseases_by_symptoms
    is_confident,
    tier,               \* the branch of lines 30-37 that set is_confident
    disease_json,       \* get_disease_details(top_disease_id): <<>> ({}) or <<id>>
    idx,                \* position of the loop over disease_results[:3]
    test_options,       \* diseases entered in test_options
    diag_result,        \* value of run_diagnostic
    medicine_ids,
    med_index,          \* position of "for med_id in medicine_ids"
    safe_drug_json,     \* <<>> or <<id of the safe drug>>
    first_drug_conflict_reason,
    report,             \* <<>> or <<FinalDiagnosisReport>>
    response,           \* HTTP status of the request, 0 while it runs
    exception,          \* what was raised, "" if nothing
    calls,              \* calls made to each collaborator
    fetched,            \* positions of medicine_ids whose record was fetched
    judged,             \* positions of medicine_ids given to run_safety_check,
                        \* each with the kind of answer it got
    plan_data,          \* kind of value get_full_treatment_plan returned
    printed,            \* messages printed by the handlers of caught errors
    inspected,          \* the candidates of the loop over disease_results[:3], in
                        \* order, each with what its record held
    drug_records,       \* get_medicine_details(med_id) of each round: <<>> ({}) or <<id>>
    answers,            \* repeated safety search: what the record store and the safety
                        \* judgment answer for each candidate position
    run_no,             \* repeated safety search: the run in progress, 0 before the first
    first_run,          \* repeated safety search: <<>> or <<outcome of the first run>>
    world,              \* concurrent requests: what the collaborators answer to each request
    running,            \* concurrent requests: the request whose handler is executing
    parked,             \* concurrent requests: the locals of the request that is waiting
    alone               \* concurrent requests: <<>> or <<answer to request A served alone>>

vars ==
    <<pc, caller, profile, symptoms, hits, disease_results, is_confident, tier,
      disease_json, idx, test_options, diag_result, medicine_ids, med_index, safe_drug_json,
      first_drug_conflict_reason, report, response, exception, calls, fetched, judged,
      plan_data, printed, inspected, drug_records, answers, run_no, first_run,
      world, running, parked, alone>>

diagVars == <<profile, symptoms, hits, disease_results, is_confident, tier,
              disease_json, idx,
              test_options, diag_result>>
treatVars == <<medicine_ids, med_index, safe_drug_json, first_drug_conflict_reason,
               fetched, judged>>
outVars == <<report, response, exception>>
logVars == <<plan_data, printed, inspected, drug_records>>
\* what only the repeated safety search uses
repeatVars == <<answers, run_no, first_run>>
\* what only the concurrent requests use
concVars == <<world, running, parked, alone>>
scenarioVars == <<answers, run_no, first_run, world, running, parked, alone>>

\* the locals of a request before it starts; ids: the candidate list a direct
\* call of the safety search is given
InitLocals(ids) ==
    /\ pc = "idle"
    /\ caller = ""
    /\ profile = ""
    /\ symptoms = <<>>
    /\ hits = <<>>
    /\ disease_results = <<>>
    /\ is_confident = FALSE
    /\ tier = 0
    /\ disease_json = <<>>
    /\ idx = 0
    /\ test_options = {}
    /\ diag_result = NoDiag
    /\ medicine_ids = ids
    /\ med_index = 0
    /\ safe_drug_json = <<>>
    /\ first_drug_conflict_reason = NoneStr
    /\ report = <<>>
    /\ response = 0
    /\ exception = ""
    /\ calls = [c \in Collaborators |-> 0]
    /\ fetched = <<>>
    /\ judged = <<>>
    /\ plan_data = ""
    /\ printed = {}
    /\ inspected = <<>>
    /\ drug_records = <<>>

\* the locals of a request as one value
Context ==
    [pc |-> pc, caller |-> caller, profile |-> profile, symptoms |-> symptoms,
     hits |-> hits, disease_results |-> disease_results, is_confident |-> is_confident,
     tier |-> tier, disease_json |-> disease_json, idx |-> idx,
     test_options |-> test_options, diag_result |-> diag_result,
     medicine_ids |-> medicine_ids, med_index |-> med_index,
     safe_drug_json |-> safe_drug_json,
     first_drug_conflict_reason |-> first_drug_conflict_reason,
     report |-> report, response |-> response, exception |-> exception,
     calls |-> calls, fetched |-> fetched, judged |-> judged, plan_data |-> plan_data,
     printed |-> printed, inspected |-> inspected, drug_records |-> drug_records]

\* the locals of a request that has not started
InitContext ==
    [pc |-> "idle", caller |-> "", profile |-> "", symptoms |-> <<>>,
     hits |-> <<>>, disease_results |-> <<>>, is_confident |-> FALSE,
     tier |-> 0, disease_json |-> <<>>, idx |-> 0,
     test_options |-> {}, diag_result |-> NoDiag,
     medicine_ids |-> <<>>, med_index |-> 0,
     safe_drug_json |-> <<>>,
     first_drug_conflict_reason |-> NoneStr,
     report |-> <<>>, response |-> 0, exception |-> "",
     calls |-> [c \in Collaborators |-> 0], fetched |-> <<>>, judged |-> <<>>,
     plan_data |-> "", printed |-> {}, inspected |-> <<>>, drug_records |-> <<>>]

NoWorld == <<>>

Init ==
    /\ InitLocals(<<>>)
    /\ answers = <<>>
    /\ run_no = 0
    /\ first_run = <<>>
    /\ world = NoWorld
    /\ running = "request"
    /\ parked = InitContext
    /\ alone = <<>>

Called(c) == [calls EXCEPT ![c] = @ + 1]

\* an exception leaves the function; analyze_patient's "except Exception" (main.py:73-78)
\* turns it into HTTP 500, a direct caller of the search sees it raised
Raise(e) ==
    /\ exception' = e
    /\ report' = <<>>
    /\ IF caller = "analyze_patient"
       THEN pc' = "done" /\ response' = 500
       ELSE pc' = "raised" /\ response' = response

\* run_diagnostic returns d
ReturnDiag(d) ==
    /\ diag_result' = d
    /\ pc' = "diag_returned"

\* ------------------------------------------------------------ actions
\* POST /analyze arrives (main.py:39-47)
AnalyzePatient ==
    /\ UNCHANGED scenarioVars
    /\ UNCHANGED logVars
    /\ pc = "idle"
    /\ caller' = "analyze_patient"
    /\ pc' = "extract"
    /\ UNCHANGED <<diagVars, treatVars, outVars, calls>>

\* search_diseases_by_symptoms(s) called on its own
CallSearchDiseases ==
    /\ UNCHANGED scenarioVars
    /\ UNCHANGED logVars
    /\ pc = "idle"
    /\ \E s \in SymptomLists : symptoms' = s
    /\ caller' = "search_diseases_by_symptoms"
    /\ pc' = "search"
    /\ UNCHANGED <<profile, hits, disease_results, is_confident, tier, disease_json,
                   idx, test_options, diag_result, treatVars, outVars, calls>>

\* diagnosis_workflow.py:8-16
\*   the call fails or its text is no JSON: {"error": ...}  -> ERROR
\*   the JSON is no object: profile.get raises
\*   an object: symptoms = profile.get("symptoms", []); empty -> NO_MATCH
ExtractEntities ==
    /\ UNCHANGED scenarioVars
    /\ UNCHANGED logVars
    /\ pc = "extract"
    /\ calls' = Called("extract_entities")
    /\ \/ /\ profile' = "error"
          /\ ReturnDiag([NoDiag EXCEPT !.status = "ERROR"])
          /\ UNCHANGED <<symptoms, outVars>>
       \/ /\ profile' = "not_a_dict"
          /\ Raise("AttributeError")
          /\ UNCHANGED <<symptoms, diag_result>>
       \/ /\ profile' = "profile"
          /\ \E s \in SymptomLists :
                /\ symptoms' = s
                /\ IF NoSymptoms(s)
                   THEN ReturnDiag([NoDiag EXCEPT !.status = "NO_MATCH"])
                   ELSE pc' = "search" /\ UNCHANGED diag_result
          /\ UNCHANGED outVars
    /\ UNCHANGED <<caller, hits, disease_results, is_confident, tier, disease_json,
                   idx, test_options, treatVars>>

\* json_db_service.py:99-100
SearchEmpty ==
    /\ UNCHANGED scenarioVars
    /\ UNCHANGED logVars
    /\ pc = "search"
    /\ NoSymptoms(symptoms)
    /\ disease_results' = <<>>
    /\ pc' = "searched"
    /\ UNCHANGED <<caller, profile, symptoms, hits, is_confident, tier, disease_json,
                   idx, test_options, diag_result, treatVars, outVars, calls>>

\* json_db_service.py:102-103: the embedding is computed outside the try
SearchEmbed ==
    /\ UNCHANGED scenarioVars
    /\ UNCHANGED logVars
    /\ pc = "search"
    /\ ~NoSymptoms(symptoms)
    /\ calls' = Called("embed_query")
    /\ \/ pc' = "query" /\ UNCHANGED outVars
       \/ Raise("EmbeddingError")
    /\ UNCHANGED <<caller, diagVars, treatVars>>

\* what disease_collection.query may answer: any hit list, or, where the
\* answers to the requests are fixed beforehand, one of those
QueryAnswers ==
    IF running = "request" THEN HitLists ELSE {world[r].hits : r \in DOMAIN world}

\* json_db_service.py:105-122: the query fails -> []; else aggregate and sort
SearchQuery ==
    /\ UNCHANGED scenarioVars
    /\ pc = "query"
    /\ calls' = Called("disease_query")
    /\ \/ \* the query raises: print, return []
          /\ hits' = <<>>
          /\ disease_results' = <<>>
          /\ printed' = printed \cup {"Error querying disease collection"}
       \/ /\ hits' \in QueryAnswers
          /\ disease_results' = RankDiseases(hits')
          /\ UNCHANGED printed
    /\ pc' = "searched"
    /\ UNCHANGED <<plan_data, inspected, drug_records>>
    /\ UNCHANGED <<caller, profile, symptoms, is_confident, tier, disease_json, idx,
                   test_options, diag_result, treatVars, outVars>>

\* diagnosis_workflow.py:19-37
Gate ==
    /\ UNCHANGED scenarioVars
    /\ UNCHANGED logVars
    /\ pc = "searched"
    /\ caller = "analyze_patient"
    /\ hits' = <<>>
    /\ IF disease_results = <<>>
       THEN /\ ReturnDiag([NoDiag EXCEPT !.status = "NO_MATCH"])
            /\ UNCHANGED <<tier, is_confident>>
       ELSE /\ tier' = ConfidenceTier(disease_results)
            /\ is_confident' = (tier' # 0)
            /\ pc' = "gated"
            /\ UNCHANGED diag_result
    /\ idx' = 1
    /\ UNCHANGED <<caller, profile, symptoms, disease_results, disease_json,
                   test_options, treatVars, outVars, calls>>

\* "if not disease_json" (diagnosis_workflow.py:41)
RecordMissingNever(j) == FALSE

RecordMissing(j) == j = <<>>

\* disease_json.get('disease_name', 'Unknown Disease'); a record is named by its id
DiseaseName(j) == IF j = <<>> THEN "Unknown Disease" ELSE j[1]

\* "top_disease_id, top_score = disease_results[0]" (diagnosis_workflow.py:26)
TopCandidateLast(results) == results[Len(results)]

TopCandidate(results) == results[1]

\* diagnosis_workflow.py:39-51
ConfirmFetch ==
    /\ UNCHANGED scenarioVars
    /\ UNCHANGED logVars
    /\ pc = "gated"
    /\ is_confident
    /\ calls' = Called("get_disease_details")
    /\ \E j \in {<<>>, <<TopCandidate(disease_results)[1]>>} :
          /\ disease_json' = j
          /\ IF RecordMissing(j)
             THEN ReturnDiag([NoDiag EXCEPT !.status = "NO_MATCH"])
             ELSE ReturnDiag([NoDiag EXCEPT !.status = "CONFIRMED",
                                            !.diagnosis = DiseaseName(j),
                                            !.diagnosis_id = TopCandidate(disease_results)[1],
                                            !.confidence = TopCandidate(disease_results)[2]])
    /\ UNCHANGED <<caller, profile, symptoms, hits, disease_results, is_confident,
                   tier, idx, test_options, treatVars, outVars>>

\* "for disease_id, score in disease_results[:3]" (diagnosis_workflow.py:55)
InspectedCandidatesAll(results) == Len(results)

InspectedCandidates(results) == Min(TopCandidates, Len(results))

\* what get_disease_details gave the loop: {} | a record without tests | one with tests
RecordKinds == {"none", "no_tests", "tests"}

\* diagnosis_workflow.py:55-60, one round of the loop over disease_results[:3]
CollectTests ==
    /\ UNCHANGED scenarioVars
    /\ pc = "gated"
    /\ ~is_confident
    /\ idx <= InspectedCandidates(disease_results)
    /\ calls' = Called("get_disease_details")
    /\ \E record \in RecordKinds :
          /\ inspected' = Append(inspected, [disease_id |-> disease_results[idx][1],
                                             record |-> record])
          /\ test_options' = IF record = "tests"
                             THEN test_options \cup {disease_results[idx][1]}
                             ELSE test_options
    /\ idx' = idx + 1
    /\ UNCHANGED <<pc, caller, profile, symptoms, hits, disease_results, is_confident,
                   tier, disease_json, diag_result, treatVars, outVars,
                   plan_data, printed, drug_records>>

\* gemini_service.py:70-73: the call or json.loads raised
TestsOnFailureMalformed == MalformedTests

TestsOnFailure == ErrorTests

\* diagnosis_workflow.py:62-73 and gemini_service.py:54-73
SelectTests ==
    /\ UNCHANGED scenarioVars
    /\ pc = "gated"
    /\ ~is_confident
    /\ idx > InspectedCandidates(disease_results)
    /\ IF test_options = {}
       THEN /\ ReturnDiag([NoDiag EXCEPT !.status = "NEEDS_DATA",
                                         !.required_tests = AdvisoryTests])
            /\ UNCHANGED <<calls, printed>>
       ELSE /\ calls' = Called("get_differential_reasoning")
            /\ \/ \* the call or the parsing raises: print, return the error list
                  /\ printed' = printed \cup {"Error in get_differential_reasoning"}
                  /\ ReturnDiag([NoDiag EXCEPT !.status = "NEEDS_DATA",
                                               !.required_tests = TestsOnFailure])
               \/ \E t \in {SelectedTests, MalformedTests} :
                     /\ UNCHANGED printed
                     /\ ReturnDiag([NoDiag EXCEPT !.status = "NEEDS_DATA",
                                                  !.required_tests = t])
    /\ UNCHANGED <<plan_data, inspected, drug_records>>
    /\ UNCHANGED <<caller, profile, symptoms, hits, disease_results, is_confident,
                   tier, disease_json, idx, test_options, treatVars, outVars>>

\* the request is answered with report r (HTTP 200)
Respond(r) ==
    /\ report' = <<r>>
    /\ response' = 200
    /\ exception' = ""
    /\ pc' = "done"

\* main.py:49-71: the branch on diag_result['status']; run_diagnostic's locals are gone
Dispatch ==
    /\ UNCHANGED scenarioVars
    /\ inspected' = <<>>
    /\ UNCHANGED <<plan_data, printed, drug_records>>
    /\ pc = "diag_returned"
    /\ \/ /\ diag_result.status = "NEEDS_DATA"
          /\ IF diag_result.required_tests.kind = "list"
             THEN Respond(Report("Inconclusive", 0, <<diag_result.required_tests.items>>,
                                 <<>>, <<>>, <<>>))
             ELSE Raise("ValidationError")
       \/ /\ diag_result.status = "NO_MATCH"
          /\ Respond(Report("No match found", 0, <<NoMatchTests>>, <<>>, <<>>, <<>>))
       \/ /\ diag_result.status = "ERROR"
          /\ Raise("HTTPException")
       \/ /\ diag_result.status = "CONFIRMED"
          /\ pc' = "med_search"
          /\ UNCHANGED outVars
    /\ hits' = <<>>
    /\ disease_results' = <<>>
    /\ is_confident' = FALSE
    /\ tier' = 0
    /\ disease_json' = <<>>
    /\ idx' = 0
    /\ test_options' = {}
    /\ UNCHANGED <<caller, profile, symptoms, diag_result, treatVars, calls>>

\* "if not medicine_ids" (treatment_workflow.py:16)
NoMedicinesNever(m) == FALSE

NoMedicines(m) == m = <<>>

\* "for med_id in medicine_ids" starts at the head of the list at every call
\* (treatment_workflow.py:30)
FirstPositionWhereLeft == IF run_no = 0 THEN 1 ELSE med_index

FirstPosition == 1

\* treatment_workflow.py:13-28 and json_db_service.py:124-142
SearchMedicines ==
    /\ UNCHANGED scenarioVars
    /\ pc = "med_search"
    /\ calls' = Called("search_medicines_by_disease")
    /\ \E failed \in BOOLEAN, m \in MedicineLists :
          \* the query raises: print, return []
          /\ failed => m = <<>>
          /\ printed' = IF failed
                        THEN printed \cup {"Error querying medicine collection"}
                        ELSE printed
          /\ medicine_ids' = m
          /\ IF NoMedicines(m)
             THEN /\ Respond(Report(diag_result.diagnosis, diag_result.confidence, <<>>,
                                    <<>>,
                                    Warning("No suitable medicine found in the local database for",
                                            diag_result.diagnosis),
                                    <<>>))
                  /\ UNCHANGED med_index
             ELSE /\ pc' = "safety_loop"
                  /\ med_index' = FirstPosition
                  /\ UNCHANGED outVars
    /\ UNCHANGED <<caller, diagVars, safe_drug_json, first_drug_conflict_reason,
                   fetched, judged, plan_data, inspected, drug_records>>

\* what the loop makes of a safety report (treatment_workflow.py:36-43)
Verdict(safety_report) ==
    IF safety_report.kind # "verdict" THEN safety_report.kind
    ELSE IF safety_report.is_safe THEN "safe" ELSE "unsafe"

\* treatment_workflow.py:41-43: "break" after a safe verdict
LoopControlNoBreak(safety_report) == "continue"

LoopControl(safety_report) == IF safety_report.is_safe THEN "break" ELSE "continue"

\* "for med_id in medicine_ids": the position after a round that ended in "continue"
NextPositionRetry(i) == i
NextPositionRestart(i) == 1

NextPosition(i) == i + 1

\* "if 'error' in safety_report" (treatment_workflow.py:37)
JudgmentErroredNever(safety_report) == FALSE

JudgmentErrored(safety_report) == safety_report.kind = "error"

\* treatment_workflow.py:30-46, one round of "for med_id in medicine_ids"
SafetyStep ==
    /\ UNCHANGED scenarioVars
    /\ pc = "safety_loop"
    /\ med_index <= Len(medicine_ids)
    /\ fetched' = Append(fetched, med_index)
    /\ \/ \* get_medicine_details gives {}: continue
          /\ calls' = Called("get_medicine_details")
          /\ drug_records' = Append(drug_records, <<>>)
          /\ med_index' = NextPosition(med_index)
          /\ UNCHANGED <<pc, safe_drug_json, first_drug_conflict_reason, judged, outVars>>
       \/ \E safety_report \in SafetyReports :
             /\ calls' = [calls EXCEPT !["get_medicine_details"] = @ + 1,
                                       !["run_safety_check"] = @ + 1]
             /\ drug_records' = Append(drug_records, <<medicine_ids[med_index]>>)
             /\ judged' = Append(judged, [position |-> med_index,
                                          verdict |-> Verdict(safety_report),
                                          reason |-> IF Verdict(safety_report) = "unsafe"
                                                     THEN ConflictReason(safety_report)
                                                     ELSE ""])
             /\ IF JudgmentErrored(safety_report)
                THEN /\ med_index' = NextPosition(med_index)
                     /\ UNCHANGED <<pc, safe_drug_json, first_drug_conflict_reason, outVars>>
                ELSE IF safety_report.kind = "not_a_dict"
                THEN \* safety_report.get raises
                     /\ Raise("AttributeError")
                     /\ UNCHANGED <<med_index, safe_drug_json, first_drug_conflict_reason>>
                ELSE IF safety_report.is_safe
                THEN /\ safe_drug_json' = <<medicine_ids[med_index]>>
                     /\ IF LoopControl(safety_report) = "break"
                        THEN pc' = "plan" /\ UNCHANGED med_index
                        ELSE pc' = pc /\ med_index' = NextPosition(med_index)
                     /\ UNCHANGED <<first_drug_conflict_reason, outVars>>
                ELSE /\ first_drug_conflict_reason' =
                           IF Falsy(first_drug_conflict_reason)
                           THEN ConflictReason(safety_report)
                           ELSE first_drug_conflict_reason
                     /\ med_index' = NextPosition(med_index)
                     /\ UNCHANGED <<pc, safe_drug_json, outVars>>
    /\ UNCHANGED <<caller, diagVars, medicine_ids, plan_data, printed, inspected>>

\* treatment_workflow.py:48-56: the loop ran out of candidates
SafetyExhausted ==
    /\ UNCHANGED scenarioVars
    /\ UNCHANGED logVars
    /\ pc = "safety_loop"
    /\ med_index > Len(medicine_ids)
    /\ IF safe_drug_json = <<>>
       THEN Respond(Report(diag_result.diagnosis, diag_result.confidence, <<>>, <<>>,
                           Warning("All available treatments are contraindicated. Reason for first drug checked:",
                                   first_drug_conflict_reason),
                           <<>>))
       ELSE pc' = "plan" /\ UNCHANGED outVars
    /\ UNCHANGED <<caller, diagVars, treatVars, calls>>

\* what _call_gemini_json gives get_full_treatment_plan: {"error": ...}, JSON that is
\* no object, an object whose list fields do not validate, an object whose
\* prescription does not parse, or a full plan
PlanKinds == {"error", "not_a_dict", "bad_fields", "bad_prescription", "plan"}

\* "if 'error' in plan_data" (treatment_workflow.py:63)
PlanFailedNever(kind) == FALSE

PlanFailed(kind) == kind = "error"

\* treatment_workflow.py:81-119 with the alternative added but the main prescription kept
ComposeReportKeepMain(diag, reason, main_prescription) ==
    IF ~Falsy(reason)
    THEN Report(diag.diagnosis, diag.confidence, <<>>, <<main_prescription>>,
                Warning("Note: First-line drug was contraindicated. Prescribing alternative.",
                        reason),
                <<main_prescription>>)
    ELSE Report(diag.diagnosis, diag.confidence, <<>>, <<main_prescription>>, <<>>, <<>>)

\* treatment_workflow.py:81-119: alt_prescription, warning and the report
ComposeReport(diag, reason, main_prescription) ==
    IF ~Falsy(reason)
    THEN Report(diag.diagnosis, diag.confidence, <<>>, <<>>,
                Warning("Note: First-line drug was contraindicated. Prescribing alternative.",
                        reason),
                <<main_prescription>>)
    ELSE Report(diag.diagnosis, diag.confidence, <<>>, <<main_prescription>>, <<>>, <<>>)

\* treatment_workflow.py:58-121
GeneratePlan ==
    /\ UNCHANGED scenarioVars
    /\ pc = "plan"
    /\ calls' = [calls EXCEPT !["get_disease_details"] = @ + 1,
                              !["get_full_treatment_plan"] = @ + 1]
    /\ \E kind \in PlanKinds :
          LET generic_name == safe_drug_json[1]
              main_prescription ==
                  IF kind = "plan"
                  THEN Prescription(generic_name, "plan")
                  ELSE Prescription(generic_name, "See doctor")
          IN  /\ plan_data' = kind
              /\ CASE PlanFailed(kind) ->
                        Respond(Report(diag_result.diagnosis, diag_result.confidence, <<>>,
                                       <<Prescription(generic_name, "N/A")>>,
                                       Warning("Failed to generate detailed plan.", ""),
                                       <<>>))
                   [] kind = "not_a_dict" -> Raise("AttributeError")
                   [] kind = "bad_fields" -> Raise("ValidationError")
                   [] OTHER ->
                        Respond(ComposeReport(diag_result, first_drug_conflict_reason,
                                              main_prescription))
    /\ UNCHANGED <<caller, diagVars, treatVars, printed, inspected, drug_records>>

Next ==
    \/ AnalyzePatient
    \/ CallSearchDiseases
    \/ ExtractEntities
    \/ SearchEmpty
    \/ SearchEmbed
    \/ SearchQuery
    \/ Gate
    \/ ConfirmFetch
    \/ CollectTests
    \/ SelectTests
    \/ Dispatch
    \/ SearchMedicines
    \/ SafetyStep
    \/ SafetyExhausted
    \/ GeneratePlan

Spec == Init /\ [][Next]_vars

\* ------------------------------------- the safety search called twice
\* what the record store and the safety judgment give for one candidate
MedOutcomes ==
    {[record |-> FALSE, safety_report |-> r] : r \in {CHOOSE x \in SafetyReports : TRUE}}
    \cup {[record |-> TRUE, safety_report |-> r] : r \in SafetyReports}

\* every answer of the safety loop so far is the one that a fixes for its candidate
FollowsAnswers(a) ==
    /\ Len(drug_records) = Len(fetched)
    /\ \A n \in 1..Len(fetched) :
          /\ fetched[n] \in 1..Len(a)
          /\ (drug_records[n] # <<>>) = a[fetched[n]].record
    /\ \A n \in 1..Len(judged) :
          /\ judged[n].position \in 1..Len(a)
          /\ judged[n].verdict = Verdict(a[judged[n].position].safety_report)
          /\ judged[n].verdict = "unsafe" =>
                judged[n].reason = ConflictReason(a[judged[n].position].safety_report)

AnswersFollowed == FollowsAnswers(answers)

\* what treatment_workflow.py:26-46 leaves behind: the drug selected, the
\* rejection reason kept, the exception raised
Outcome ==
    [selected |-> safe_drug_json, reason |-> first_drug_conflict_reason,
     exception |-> exception]

RepeatInit ==
    \E ids \in MedicineLists :
       /\ InitLocals(ids)
       /\ answers \in [1..Len(ids) -> MedOutcomes]
       /\ run_no = 0
       /\ first_run = <<>>
       /\ world = NoWorld
       /\ running = "request"
       /\ parked = InitContext
       /\ alone = <<>>

\* treatment_workflow.py:26-30: the locals of the search are set anew
StartSafetySearch ==
    /\ pc \in {"idle", "between_runs"}
    /\ run_no < 2
    /\ run_no' = run_no + 1
    /\ caller' = "get_treatment_plan"
    /\ safe_drug_json' = <<>>
    /\ first_drug_conflict_reason' = NoneStr
    /\ med_index' = FirstPosition
    /\ fetched' = <<>>
    /\ judged' = <<>>
    /\ drug_records' = <<>>
    /\ exception' = ""
    /\ pc' = "safety_loop"
    /\ UNCHANGED <<diagVars, medicine_ids, report, response, calls, plan_data, printed,
                   inspected, answers, first_run, concVars>>

\* one round of the loop, answered as fixed for the candidate
RepeatRound ==
    /\ run_no > 0
    /\ SafetyStep
    /\ AnswersFollowed'

\* the loop is over: by break, by the end of the list, or by an exception
EndSafetySearch ==
    /\ run_no > 0
    /\ \/ pc \in {"plan", "raised"}
       \/ pc = "safety_loop" /\ med_index > Len(medicine_ids)
    /\ IF run_no = 1
       THEN first_run' = <<Outcome>> /\ pc' = "between_runs"
       ELSE first_run' = first_run /\ pc' = "repeated"
    /\ UNCHANGED <<caller, diagVars, treatVars, outVars, calls, logVars, answers, run_no,
                   concVars>>

RepeatNext == StartSafetySearch \/ RepeatRound \/ EndSafetySearch

RepeatSpec == RepeatInit /\ [][RepeatNext]_vars

\* --------------------------------------------- two concurrent requests
\* The handler's variables are locals of analyze_patient, run_diagnostic,
\* get_treatment_plan and the search functions; the module-level objects
\* (collections, embedding model, llm) are only queried.  While one request
\* executes, the locals of the other are parked.
\*
\* what the collaborators answer to one request, call site by call site
ConfidentHits == <<[disease_id |-> "D1", distance |-> 10]>>
UnsureHits ==
    <<[disease_id |-> "D1", distance |-> 30], [disease_id |-> "D2", distance |-> 40]>>
SampleIds == CHOOSE m \in MedicineLists : Len(m) = Min(MaxMeds, Cardinality(Medicines))
SampleOutcomes ==
    {o \in MedOutcomes :
        \/ ~o.record
        \/ o.safety_report.kind = "verdict" /\ o.safety_report.is_safe
        \/ o.safety_report.kind = "verdict" /\ o.safety_report.conflict_reason = "reason1"}
BaseWorld ==
    [extract |-> "profile", symptoms |-> <<"fever", "cough">>, embed_ok |-> TRUE,
     query_ok |-> TRUE, hits |-> ConfidentHits,
     top_record |-> TRUE, candidate_record |-> "tests", selection |-> SelectedTests,
     medicines_ok |-> TRUE, medicine_ids |-> <<>>, answers |-> <<>>, plan |-> "plan"]
Worlds ==
    {BaseWorld,
     [BaseWorld EXCEPT !.extract = "error"],
     [BaseWorld EXCEPT !.embed_ok = FALSE],
     [BaseWorld EXCEPT !.query_ok = FALSE],
     [BaseWorld EXCEPT !.top_record = FALSE],
     [BaseWorld EXCEPT !.medicines_ok = FALSE]}
    \cup {[BaseWorld EXCEPT !.hits = UnsureHits, !.candidate_record = k, !.selection = t] :
             k \in {"none", "tests"},
             t \in {SelectedTests, MalformedTests, ErrorTests}}
    \cup {[BaseWorld EXCEPT !.medicine_ids = SampleIds, !.answers = a, !.plan = p] :
             a \in [1..Len(SampleIds) -> SampleOutcomes], p \in {"plan", "error"}}

\* every answer the running request has received is the one w fixes for it
Follows(w) ==
    /\ caller \in {"", "analyze_patient"}
    /\ profile # "" => profile = w.extract
    /\ profile = "profile" => symptoms = w.symptoms
    /\ pc = "query" => w.embed_ok
    /\ exception = "EmbeddingError" => ~w.embed_ok
    /\ calls["disease_query"] > 0 =>
          ("Error querying disease collection" \in printed) = ~w.query_ok
    /\ (pc = "searched" /\ w.query_ok) => hits = w.hits
    /\ (pc = "diag_returned" /\ is_confident) => (disease_json # <<>>) = w.top_record
    /\ \A n \in 1..Len(inspected) : inspected[n].record = w.candidate_record
    /\ calls["get_differential_reasoning"] > 0 =>
          /\ diag_result.required_tests = w.selection
          /\ ("Error in get_differential_reasoning" \in printed) = (w.selection = ErrorTests)
    /\ calls["search_medicines_by_disease"] > 0 =>
          /\ ("Error querying medicine collection" \in printed) = ~w.medicines_ok
          /\ medicine_ids = IF w.medicines_ok THEN w.medicine_ids ELSE <<>>
    /\ FollowsAnswers(w.answers)
    /\ plan_data # "" => plan_data = w.plan

ConcInit ==
    /\ InitLocals(<<>>)
    /\ answers = <<>>
    /\ run_no = 0
    /\ first_run = <<>>
    /\ world \in [{"A", "B"} -> Worlds]
    /\ running = "alone"
    /\ parked = InitContext
    /\ alone = <<>>

\* what the client of a request receives
Answer(ctx) == [report |-> ctx.report, response |-> ctx.response]

\* a local of a function (saved: the value its own request left in it,
\* current: the value the other request is leaving)
LocalShared(saved, current) == current

Local(saved, current) == saved

\* the locals of the request that resumes
Resume(ctx) ==
    /\ pc' = Local(ctx.pc, pc)
    /\ caller' = Local(ctx.caller, caller)
    /\ profile' = Local(ctx.profile, profile)
    /\ symptoms' = Local(ctx.symptoms, symptoms)
    /\ hits' = Local(ctx.hits, hits)
    /\ disease_results' = Local(ctx.disease_results, disease_results)
    /\ is_confident' = Local(ctx.is_confident, is_confident)
    /\ tier' = Local(ctx.tier, tier)
    /\ disease_json' = Local(ctx.disease_json, disease_json)
    /\ idx' = Local(ctx.idx, idx)
    /\ test_options' = Local(ctx.test_options, test_options)
    /\ diag_result' = Local(ctx.diag_result, diag_result)
    /\ medicine_ids' = Local(ctx.medicine_ids, medicine_ids)
    /\ med_index' = Local(ctx.med_index, med_index)
    /\ safe_drug_json' = Local(ctx.safe_drug_json, safe_drug_json)
    /\ first_drug_conflict_reason' =
          Local(ctx.first_drug_conflict_reason, first_drug_conflict_reason)
    /\ report' = Local(ctx.report, report)
    /\ response' = Local(ctx.response, response)
    /\ exception' = Local(ctx.exception, exception)
    /\ calls' = Local(ctx.calls, calls)
    /\ fetched' = Local(ctx.fetched, fetched)
    /\ judged' = Local(ctx.judged, judged)
    /\ plan_data' = Local(ctx.plan_data, plan_data)
    /\ printed' = Local(ctx.printed, printed)
    /\ inspected' = Local(ctx.inspected, inspected)
    /\ drug_records' = Local(ctx.drug_records, drug_records)

\* request A served with no other request in the process
AloneStep ==
    /\ running = "alone"
    /\ Next
    /\ Follows(world["A"])'

\* the answer is kept for comparison; requests A and B arrive
Arrive ==
    /\ running = "alone"
    /\ pc = "done"
    /\ alone' = <<Answer(Context)>>
    /\ running' = "A"
    /\ parked' = InitContext
    /\ pc' = "idle"
    /\ caller' = ""
    /\ profile' = ""
    /\ symptoms' = <<>>
    /\ diag_result' = NoDiag
    /\ medicine_ids' = <<>>
    /\ med_index' = 0
    /\ safe_drug_json' = <<>>
    /\ first_drug_conflict_reason' = NoneStr
    /\ report' = <<>>
    /\ response' = 0
    /\ exception' = ""
    /\ calls' = [c \in Collaborators |-> 0]
    /\ fetched' = <<>>
    /\ judged' = <<>>
    /\ plan_data' = ""
    /\ printed' = {}
    /\ drug_records' = <<>>
    /\ UNCHANGED <<hits, disease_results, is_confident, tier, disease_json, idx,
                   test_options, inspected, repeatVars, world>>

\* the running request takes its next step
RequestStep ==
    /\ running \in {"A", "B"}
    /\ Next
    /\ Follows(world[running])'

\* the host leaves the running request and goes on with the other one
Switch ==
    /\ running \in {"A", "B"}
    /\ running' = IF running = "A" THEN "B" ELSE "A"
    /\ parked' = Context
    /\ Resume(parked)
    /\ UNCHANGED <<repeatVars, world, alone>>

ConcNext == AloneStep \/ Arrive \/ RequestStep \/ Switch

ConcSpec == ConcInit /\ [][ConcNext]_vars

\* ============================================================= claims
Top == disease_results[1][2]
Second == disease_results[2][2]
Ranked == disease_results # <<>>
Gated == pc = "gated"
\* run_diagnostic has returned after ranking candidates
Decided == pc = "diag_returned" /\ Ranked

\* the three tiers as the specification words them
Tier1Holds == Top > 80 /\ (Len(disease_results) = 1 \/ Top - Second > 20)
Tier2Holds == Top > 65 /\ Len(disease_results) >= 2 /\ Top - Second > 15
Tier3Holds == Top > 50 /\ Len(disease_results) = 1

C2_Tier1Confirms ==
    /\ (Gated /\ Tier1Holds) => is_confident
    /\ (Decided /\ Tier1Holds) =>
          /\ diag_result.status \in {"CONFIRMED", "NO_MATCH"}
          /\ disease_json # <<>> =>
                /\ diag_result.status = "CONFIRMED"
                /\ diag_result.diagnosis_id = disease_results[1][1]
                /\ diag_result.confidence = Top

\* scenario 1: D1 = 1.8, D2 = 0.3 confirms D1
C2_Witness ==
    /\ pc = "diag_returned"
    /\ disease_results = << <<"D1", 180>>, <<"D2", 30>> >>
    /\ diag_result.status = "CONFIRMED"
    /\ diag_result.diagnosis_id = "D1"

\* C3: exactly one candidate with score > 0.5 makes run_diagnostic confident,
\* and with a readable disease record it returns CONFIRMED for that candidate.
C3_LoneCandidateConfirms ==
    /\ (Gated /\ Tier3Holds) => is_confident
    /\ (Decided /\ Tier3Holds) =>
          /\ diag_result.status \in {"CONFIRMED", "NO_MATCH"}
          /\ disease_json # <<>> =>
                /\ diag_result.status = "CONFIRMED"
                /\ diag_result.diagnosis_id = disease_results[1][1]

\* scenario 2: a single hit of D3 with score 0.55 is confirmed
C3_Witness ==
    /\ pc = "diag_returned"
    /\ disease_results = << <<"D3", 55>> >>
    /\ diag_result.status = "CONFIRMED"
    /\ diag_result.diagnosis_id = "D3"

\* C4: on a non-empty candidate list that matches none of the tiers 1-3 the
\* gate is not confident, no disease record is read for a confirmation, and
\* run_diagnostic returns NEEDS_DATA, never CONFIRMED and never NO_MATCH.
C4_NoTierNeedsData ==
    /\ (Gated /\ ~Tier1Holds /\ ~Tier2Holds /\ ~Tier3Holds) => ~is_confident
    /\ (Decided /\ ~Tier1Holds /\ ~Tier2Holds /\ ~Tier3Holds) =>
          diag_result.status = "NEEDS_DATA"

\* scenario 3: scores 0.7 and 0.6 end in NEEDS_DATA
C4_Witness ==
    /\ pc = "diag_returned"
    /\ Len(disease_results) = 2
    /\ Top = 70 /\ Second = 60
    /\ diag_result.status = "NEEDS_DATA"

\* C5: the comparisons of the gate are strict: a top score of exactly 0.8 is
\* not decided by tier 1, exactly 0.65 not by tier 2, exactly 0.5 not by
\* tier 3, a lead of exactly 0.2 not by tier 1 and of exactly 0.15 not by
\* tier 2; a lone candidate with score exactly 0.5 is never CONFIRMED.
C5_StrictThresholds ==
    /\ Gated =>
          /\ Top = 80 => tier # 1
          /\ Top = 65 => tier # 2
          /\ Top = 50 => tier # 3
          /\ (Len(disease_results) >= 2 /\ Top - Second = 20) => tier # 1
          /\ (Len(disease_results) >= 2 /\ Top - Second = 15) => tier # 2
          /\ (Len(disease_results) = 1 /\ Top = 50) => ~is_confident
    /\ (Decided /\ Len(disease_results) = 1 /\ Top = 50) =>
          diag_result.status = "NEEDS_DATA"

C5_Witness ==
    /\ pc = "diag_returned"
    /\ Len(disease_results) = 1
    /\ Top = 50
    /\ diag_result.status = "NEEDS_DATA"

\* the calls a request makes after the extraction, all collaborators together
CallsAfterExtraction ==
    calls["embed_query"] + calls["disease_query"] + calls["get_disease_details"]
    + calls["get_differential_reasoning"] + calls["search_medicines_by_disease"]
    + calls["get_medicine_details"] + calls["run_safety_check"]
    + calls["get_full_treatment_plan"]

\* C6: with an empty extracted symptom set the request is classified NO_MATCH
\* at once and answered with the no-match report, and no embedding, index
\* query, record fetch or further reasoning call is made; called on an empty
\* list, search_diseases_by_symptoms returns [] without embedding or querying.
C6_EmptySymptomsNoSearch ==
    /\ (caller = "analyze_patient" /\ profile = "profile" /\ symptoms = <<>>) =>
          /\ CallsAfterExtraction = 0
          /\ pc \in {"diag_returned", "done"}
          /\ diag_result.status = "NO_MATCH"
          /\ pc = "done" =>
                /\ response = 200
                /\ report = <<Report("No match found", 0, <<NoMatchTests>>,
                                     <<>>, <<>>, <<>>)>>
    /\ (caller = "search_diseases_by_symptoms" /\ symptoms = <<>>) =>
          /\ CallsAfterExtraction = 0
          /\ pc \in {"search", "searched"}
          /\ disease_results = <<>>

C6_Witness ==
    /\ caller = "analyze_patient"
    /\ profile = "profile"
    /\ symptoms = <<>>
    /\ pc = "done"
    /\ report # <<>>
    /\ report[1].diagnosis = "No match found"

\* sum of 1 - distance over the hits at the positions in S
RECURSIVE SumOfScores(_)
SumOfScores(S) ==
    IF S = {} THEN 0
    ELSE LET j == CHOOSE x \in S : TRUE
         IN  (100 - hits[j].distance) + SumOfScores(S \ {j})

HitsOf(d) == {j \in 1..Len(hits) : hits[j].disease_id = d}
Owners == {hits[j].disease_id : j \in 1..Len(hits)}

\* C7: for the hits of one query, search_diseases_by_symptoms returns exactly
\* one candidate per distinct owner id, its score the sum of 1 - distance over
\* the hits of that id, in non-increasing order of score.
C7_AggregateBySumSortedDesc ==
    (pc = "searched" /\ calls["disease_query"] = 1) =>
        /\ Len(disease_results) = Cardinality(Owners)
        /\ \A d \in Owners :
              \E k \in 1..Len(disease_results) :
                 disease_results[k] = <<d, SumOfScores(HitsOf(d))>>
        /\ \A k \in 1..Len(disease_results) - 1 :
              disease_results[k][2] >= disease_results[k + 1][2]

\* D2 first with one hit, D1 with two hits: D1 = 1.8 is ranked before D2 = 0.3
C7_Witness ==
    /\ pc = "searched"
    /\ Len(hits) = 3
    /\ hits[1].disease_id = "D2"
    /\ disease_results = << <<"D1", 180>>, <<"D2", 30>> >>

\* C8: every report has confidence_score in [0, 1].
C8_ConfidenceInUnitInterval ==
    report # <<>> =>
        (report[1].confidence_score >= 0 /\ report[1].confidence_score <= 100)

TreatmentCalls ==
    calls["search_medicines_by_disease"] + calls["get_medicine_details"]
    + calls["run_safety_check"] + calls["get_full_treatment_plan"]

\* C9: a request whose extraction gave a profile ends with exactly one of
\* CONFIRMED, NEEDS_DATA, NO_MATCH decided (ERROR when the extraction failed);
\* medicine search, safety judgments and plan generation happen only after
\* CONFIRMED; NEEDS_DATA ends in the report "Inconclusive" with confidence 0.0
\* and NO_MATCH in the report "No match found" with confidence 0.0, both
\* without a prescription.
C9_OneDecisionTreatmentOnlyAfterConfirmed ==
    /\ (pc = "done" /\ profile = "profile") =>
          diag_result.status \in {"CONFIRMED", "NEEDS_DATA", "NO_MATCH"}
    /\ (pc = "done" /\ profile = "error") => diag_result.status = "ERROR"
    /\ TreatmentCalls > 0 => diag_result.status = "CONFIRMED"
    /\ (pc = "done" /\ diag_result.status = "NEEDS_DATA") =>
          /\ report # <<>>
          /\ report[1].diagnosis = "Inconclusive"
          /\ report[1].confidence_score = 0
          /\ report[1].prescription = <<>>
          /\ report[1].alternative_prescription = <<>>
    /\ (pc = "done" /\ diag_result.status = "NO_MATCH") =>
          /\ report # <<>>
          /\ report[1].diagnosis = "No match found"
          /\ report[1].confidence_score = 0
          /\ report[1].prescription = <<>>
          /\ report[1].alternative_prescription = <<>>

Last(seq) == seq[Len(seq)]

\* C10: once a candidate is judged safe it is the selected drug and the loop
\* is over: the safe verdict is the last judgment made, it was given to the
\* last record fetched, no candidate behind it is fetched or judged, and the
\* judgments made are no more than the position of that candidate.
C10_StopsAtFirstSafe ==
    /\ \A n \in 1..Len(judged) :
          judged[n].verdict = "safe" =>
             /\ n = Len(judged)
             /\ Last(fetched) = judged[n].position
             /\ safe_drug_json = <<medicine_ids[judged[n].position]>>
             /\ Len(judged) <= judged[n].position
             /\ pc \in {"plan", "done"}
    /\ safe_drug_json # <<>> =>
          /\ judged # <<>>
          /\ Last(judged).verdict = "safe"
    /\ \A n \in 1..Len(fetched) : fetched[n] = n
    /\ \A n \in 1..Len(judged) - 1 : judged[n].position < judged[n + 1].position

\* the first of two candidates is judged safe: the second is never fetched
C10_Witness ==
    /\ pc = "done"
    /\ Len(medicine_ids) = 2
    /\ Len(judged) = 1
    /\ judged[1].verdict = "safe"
    /\ safe_drug_json = <<medicine_ids[1]>>
    /\ fetched = <<1>>
    /\ report # <<>>

\* positions in judged of the candidates judged unsafe
Rejections == {n \in 1..Len(judged) : judged[n].verdict = "unsafe"}
FirstRejection == CHOOSE n \in Rejections : \A m \in Rejections : n <= m

\* C11: whenever candidates have been judged unsafe, the rejection reason the
\* safety loop keeps is the conflict reason of the first candidate judged
\* unsafe; the reason of a later rejected candidate never replaces it.
C11_FirstRejectionWins ==
    Rejections # {} => first_drug_conflict_reason = judged[FirstRejection].reason

Answered == pc = "done" /\ report # <<>>
FirstLineWarning(reason) ==
    Warning("Note: First-line drug was contraindicated. Prescribing alternative.", reason)
PlanFailedWarning == Warning("Failed to generate detailed plan.", "")

\* C12: in every report that contains a prescription, the plan-failure report
\* included: a selected drug that was the first candidate tried is the primary
\* prescription and the report has no alternative and no contraindication
\* warning (the plan-failure mark is not counted as one); a selected drug tried
\* after a rejected candidate is the alternative prescription, the report has
\* no primary prescription and its warning names the first rejection reason.
C12_CompositionRule ==
    (Answered /\ (report[1].prescription # <<>>
                  \/ report[1].alternative_prescription # <<>>)) =>
       /\ Len(fetched) = 1 =>
             /\ report[1].prescription # <<>>
             /\ report[1].prescription[1].medicine_name = medicine_ids[1]
             /\ report[1].alternative_prescription = <<>>
             /\ report[1].contraindication_warning \in {<<>>, PlanFailedWarning}
       /\ Rejections # {} =>
             /\ report[1].prescription = <<>>
             /\ report[1].alternative_prescription # <<>>
             /\ report[1].alternative_prescription[1].medicine_name = safe_drug_json[1]
             /\ report[1].contraindication_warning =
                   FirstLineWarning(judged[FirstRejection].reason)

ConfirmedWithCandidates ==
    Answered /\ diag_result.status = "CONFIRMED" /\ medicine_ids # <<>>
PrimaryPresent == report[1].prescription # <<>>
AlternativeWithWarning ==
    /\ report[1].alternative_prescription # <<>>
    /\ report[1].contraindication_warning # <<>>

\* C13 as stated: every report for a confirmed disease whose medicine search
\* returned a candidate has exactly one of (a) the primary prescription, (b)
\* the alternative prescription together with a contraindication warning.
C13_ExactlyOneWithCandidates ==
    ConfirmedWithCandidates => (PrimaryPresent # AlternativeWithWarning)

\* C13 amended: when the safety loop selected a safe drug the report has
\* exactly one of (a), (b); when candidates existed but none was selected it
\* has neither prescription and carries a contraindication warning.
C13_ExactlyOneWhenSelected ==
    ConfirmedWithCandidates =>
       IF safe_drug_json # <<>>
       THEN PrimaryPresent # AlternativeWithWarning
       ELSE /\ report[1].prescription = <<>>
            /\ report[1].alternative_prescription = <<>>
            /\ report[1].contraindication_warning # <<>>

\* a rejected candidate followed by a safe one: alternative and warning, no primary
C13_Witness ==
    /\ ConfirmedWithCandidates
    /\ Len(medicine_ids) = 2
    /\ safe_drug_json = <<medicine_ids[2]>>
    /\ Rejections = {1}
    /\ ~PrimaryPresent
    /\ AlternativeWithWarning
    /\ report[1].alternative_prescription[1].medicine_name = medicine_ids[2]

\* C14: when the loop ran out of candidates without a safe one the report has
\* the diagnosis and the confidence, no primary and no alternative
\* prescription, and a warning with the first rejection reason, or with the
\* placeholder "Unknown conflict" when no candidate was rejected.
C14_ExhaustedReport ==
    (ConfirmedWithCandidates /\ safe_drug_json = <<>>) =>
       /\ report[1].diagnosis = diag_result.diagnosis
       /\ report[1].confidence_score = diag_result.confidence
       /\ report[1].prescription = <<>>
       /\ report[1].alternative_prescription = <<>>
       /\ report[1].contraindication_warning =
             Warning("All available treatments are contraindicated. Reason for first drug checked:",
                     IF Rejections # {} THEN judged[FirstRejection].reason
                     ELSE "Unknown conflict")

\* C15: once the medicine search gave no candidate, its own failure included,
\* the request is answered with the diagnosis, the confidence, the warning
\* "No suitable medicine found" and no prescription, and no medicine record
\* is fetched, no safety judgment and no plan generation is made.
C15_NoCandidatesReport ==
    (calls["search_medicines_by_disease"] > 0 /\ medicine_ids = <<>>) =>
       /\ Answered
       /\ response = 200
       /\ report[1].diagnosis = diag_result.diagnosis
       /\ report[1].confidence_score = diag_result.confidence
       /\ report[1].contraindication_warning =
             Warning("No suitable medicine found in the local database for",
                     diag_result.diagnosis)
       /\ report[1].prescription = <<>>
       /\ report[1].alternative_prescription = <<>>
       /\ TreatmentCalls = 1
       /\ calls["get_disease_details"] = 1

\* the medicine query itself failed
C15_Witness ==
    /\ Answered
    /\ "Error querying medicine collection" \in printed
    /\ medicine_ids = <<>>
    /\ report[1].contraindication_warning # <<>>
    /\ report[1].contraindication_warning[1].text =
          "No suitable medicine found in the local database for"

ReasoningCalls ==
    calls["get_differential_reasoning"] + calls["run_safety_check"]
    + calls["get_full_treatment_plan"]

\* C16: a request that called test selection, safety judgment or plan
\* generation ends with HTTP 200 and a report, whatever those calls returned.
C16_ReasoningFailuresRecoverable ==
    (pc = "done" /\ ReasoningCalls > 0) => (response = 200 /\ report # <<>>)

\* C17: when plan generation fails after a safe drug was selected the request
\* is answered with a report whose prescription is the safe drug's generic
\* name with dosage, frequency and duration "N/A", marked "Failed to generate
\* detailed plan.", and with the diagnosis and the confidence.
C17_PlanFailureFallback ==
    (pc = "done" /\ plan_data = "error") =>
       /\ Answered
       /\ response = 200
       /\ safe_drug_json # <<>>
       /\ report[1].prescription = <<Prescription(safe_drug_json[1], "N/A")>>
       /\ report[1].contraindication_warning = PlanFailedWarning
       /\ report[1].diagnosis = diag_result.diagnosis
       /\ report[1].confidence_score = diag_result.confidence

C17_Witness ==
    /\ Answered
    /\ plan_data = "error"
    /\ report[1].prescription # <<>>
    /\ report[1].prescription[1].dosage = "N/A"
    /\ report[1].prescription[1].medicine_name = safe_drug_json[1]

\* C18: a failed extraction ends run_diagnostic with ERROR before any index
\* query or record fetch and the request with an error status and no report;
\* no request whose extraction succeeded ends with an error status.
C18_OnlyExtractionFailureIsError ==
    /\ (profile = "error" /\ pc \in {"diag_returned", "done"}) =>
          /\ diag_result.status = "ERROR"
          /\ CallsAfterExtraction = 0
          /\ pc = "done" => (response = 500 /\ report = <<>>)
    /\ (pc = "done" /\ response = 500) => profile # "profile"

\* C19: a failure of the similarity search, the embedding of the query
\* included, never leaves search_diseases_by_symptoms as an exception: the
\* search returns the empty list and the request is answered with the
\* NO_MATCH report.
C19_SearchFailureGivesNoMatch ==
    /\ exception # "EmbeddingError"
    /\ ("Error querying disease collection" \in printed /\ pc = "searched") =>
          disease_results = <<>>
    /\ ("Error querying disease collection" \in printed /\ pc = "done") =>
          /\ response = 200
          /\ report # <<>>
          /\ report[1].diagnosis = "No match found"

\* C20: a confident gate whose disease record could not be fetched makes
\* run_diagnostic return NO_MATCH, and a request decided NO_MATCH makes no
\* medicine search, record fetch for a medicine, safety judgment or plan.
C20_MissingRecordIsNoMatch ==
    /\ (Decided /\ is_confident /\ disease_json = <<>>) =>
          diag_result.status = "NO_MATCH"
    /\ diag_result.status = "NO_MATCH" => TreatmentCalls = 0

C20_Witness ==
    /\ Decided
    /\ is_confident
    /\ calls["get_disease_details"] = 1
    /\ disease_json = <<>>
    /\ diag_result.status = "NO_MATCH"

NotConfidentDecided == Decided /\ ~is_confident /\ diag_result.status = "NEEDS_DATA"
CandidateIds == [n \in 1..Len(disease_results) |-> disease_results[n][1]]
WithTests == {inspected[n].disease_id : n \in {m \in 1..Len(inspected) :
                                                  inspected[m].record = "tests"}}

\* C22: on the not-confident path the loop inspects the first three candidates
\* of the ranking (all of them when there are fewer) in rank order and nothing
\* else, the test options are the inspected candidates whose record lists a
\* test, test selection is called once when there are test options and not at
\* all when there are none, and without test options the result is NEEDS_DATA
\* with the advisory string alone.
C22_TopThreeAndAdvisory ==
    /\ (pc = "gated" /\ ~is_confident) =>
          /\ Len(inspected) <= 3
          /\ calls["get_differential_reasoning"] = 0
    /\ (Decided /\ ~is_confident) =>
          /\ diag_result.status = "NEEDS_DATA"
          /\ inspected # <<>>
          /\ Len(inspected) = Min(3, Len(disease_results))
          /\ \A n \in 1..Len(inspected) : inspected[n].disease_id = CandidateIds[n]
          /\ test_options = WithTests
          /\ calls["get_differential_reasoning"] = IF test_options = {} THEN 0 ELSE 1
          /\ test_options = {} =>
                diag_result.required_tests.items = <<"Further clinical evaluation needed.">>

\* four candidates ranked, three inspected, the fourth left alone
C22_Witness ==
    /\ NotConfidentDecided
    /\ Len(disease_results) = 4
    /\ Len(inspected) = 3
    /\ inspected[1].record = "none"
    /\ inspected[2].record = "no_tests"
    /\ inspected[3].record = "no_tests"
    /\ diag_result.required_tests = AdvisoryTests
    /\ calls["get_differential_reasoning"] = 0

SelectionFailed == "Error in get_differential_reasoning" \in printed

\* C23: when the test-selection call failed, run_diagnostic returns NEEDS_DATA
\* with the one error-indicator string as required_tests and the request is
\* answered with HTTP 200 and the report "Inconclusive" carrying that string.
C23_SelectionFailureInconclusive ==
    (SelectionFailed /\ pc \in {"diag_returned", "done"}) =>
       /\ diag_result.status = "NEEDS_DATA"
       /\ diag_result.required_tests.kind = "list"
       /\ diag_result.required_tests.items = <<"Error processing diagnostic tests">>
       /\ pc = "done" =>
             /\ response = 200
             /\ report # <<>>
             /\ report[1].diagnosis = "Inconclusive"
             /\ report[1].follow_up_tests_required =
                   <<(<<"Error processing diagnostic tests">>)>>

C23_Witness ==
    /\ pc = "done"
    /\ SelectionFailed
    /\ calls["get_differential_reasoning"] = 1
    /\ response = 200
    /\ report # <<>>
    /\ report[1].diagnosis = "Inconclusive"

\* C24: a safety judgment is made only for a record that was fetched; a
\* candidate without a record or whose judgment errored is neither selected nor
\* the source of the rejection reason; and while the loop runs it stands at
\* the candidate after the last one fetched.
C24_SkippedCandidatesLeaveNoTrace ==
    /\ Len(drug_records) = Len(fetched)
    /\ calls["get_medicine_details"] = Len(fetched)
    /\ calls["run_safety_check"] = Len(judged)
    /\ Len(judged) = Cardinality({n \in 1..Len(drug_records) : drug_records[n] # <<>>})
    /\ \A n \in 1..Len(judged) :
          /\ judged[n].position \in 1..Len(drug_records)
          /\ drug_records[judged[n].position] # <<>>
    /\ first_drug_conflict_reason \in {NoneStr} \cup {judged[n].reason : n \in Rejections}
    /\ safe_drug_json # <<>> =>
          \E n \in 1..Len(judged) :
             /\ judged[n].verdict = "safe"
             /\ safe_drug_json = <<medicine_ids[judged[n].position]>>
    /\ pc = "safety_loop" => med_index = Len(fetched) + 1

\* the first record is missing, the judgment of the second errors: nothing selected
C24_Witness ==
    /\ Answered
    /\ Len(medicine_ids) = 2
    /\ Len(drug_records) = 2
    /\ drug_records[1] = <<>>
    /\ Len(judged) = 1
    /\ judged[1].position = 2
    /\ judged[1].verdict = "error"
    /\ safe_drug_json = <<>>
    /\ first_drug_conflict_reason = NoneStr

FirstHit(d) == CHOOSE n \in 1..Len(hits) :
                  /\ hits[n].disease_id = d
                  /\ \A m \in 1..(n - 1) : hits[m].disease_id # d

\* C25: in the value of search_diseases_by_symptoms, of two candidates with
\* the same aggregate score the one whose id came first among the hits is
\* ranked first.
C25_StableTies ==
    (pc = "searched" /\ hits # <<>>) =>
       \A a, b \in 1..Len(disease_results) :
          (a < b /\ disease_results[a][2] = disease_results[b][2]) =>
             FirstHit(disease_results[a][1]) < FirstHit(disease_results[b][1])

\* a tie at the top between a single hit and the sum of two later hits
C25_Witness ==
    /\ pc = "searched"
    /\ Len(hits) = 3
    /\ Len(disease_results) = 2
    /\ disease_results[1][2] = disease_results[2][2]
    /\ hits[1].disease_id = disease_results[1][1]
    /\ hits[2].disease_id = disease_results[2][1]
    /\ hits[3].disease_id = disease_results[2][1]

OnceOnly ==
    {"extract_entities", "embed_query", "disease_query", "search_medicines_by_disease",
     "get_differential_reasoning", "get_full_treatment_plan"}

\* C26: extraction, the embedding and the disease query, the medicine search,
\* test selection and plan generation are called at most once in a request;
\* the record of a medicine candidate is fetched at most once and it is judged
\* at most once, whatever the calls returned.
C26_NoRetry ==
    /\ \A c \in OnceOnly : calls[c] <= 1
    /\ calls["get_medicine_details"] = Len(fetched)
    /\ calls["run_safety_check"] = Len(judged)
    /\ Len(fetched) <= Len(medicine_ids)
    /\ \A a, b \in 1..Len(fetched) : a # b => fetched[a] # fetched[b]
    /\ \A a, b \in 1..Len(judged) : a # b => judged[a].position # judged[b].position

\* the judgment of the first candidate errors and the record of the second is missing
C26_Witness ==
    /\ pc = "done"
    /\ Len(medicine_ids) = 2
    /\ fetched = <<1, 2>>
    /\ Len(judged) = 1
    /\ judged[1].verdict = "error"
    /\ drug_records[2] = <<>>
    /\ calls["get_medicine_details"] = 2
    /\ calls["run_safety_check"] = 1

\* C29: in a report that carries a prescription, the prescription is the
\* alternative, with the first-line warning and no primary prescription,
\* exactly when the rejection reason kept by the loop is non-empty; otherwise
\* it is the primary prescription without an alternative and without a
\* contraindication warning (the plan-failure mark is not counted as one).
C29_AlternativeIffReasonRecorded ==
    (Answered /\ (report[1].prescription # <<>>
                  \/ report[1].alternative_prescription # <<>>)) =>
       IF ~Falsy(first_drug_conflict_reason)
       THEN /\ report[1].prescription = <<>>
            /\ report[1].alternative_prescription # <<>>
            /\ report[1].contraindication_warning =
                  FirstLineWarning(first_drug_conflict_reason)
       ELSE /\ report[1].prescription # <<>>
            /\ report[1].alternative_prescription = <<>>
            /\ report[1].contraindication_warning \in {<<>>, PlanFailedWarning}

\* C30: a CONFIRMED result names the first candidate of the ranking, whose
\* score no other candidate exceeds, carries that score as confidence, and the
\* confidence is above 0.5.
C30_ConfirmedIsTopCandidate ==
    /\ diag_result.status = "CONFIRMED" => diag_result.confidence > 50
    /\ (Decided /\ diag_result.status = "CONFIRMED") =>
          /\ diag_result.diagnosis_id = disease_results[1][1]
          /\ diag_result.confidence = disease_results[1][2]
          /\ \A n \in 1..Len(disease_results) :
                disease_results[n][2] <= diag_result.confidence

\* three candidates, the first confirmed through the second tier
C30_Witness ==
    /\ Decided
    /\ diag_result.status = "CONFIRMED"
    /\ Len(disease_results) = 3
    /\ tier = 2
    /\ diag_result.diagnosis_id = disease_results[1][1]
    /\ disease_results[2][2] < disease_results[1][2]

\* every collaborator call returns and the running handler takes its next step
LiveSpec == Init /\ [][Next]_vars /\ WF_vars(Next)

\* the caller has its answer: a report or an error status for a request, the
\* ranking or an exception for a direct call of the search
Terminated ==
    \/ pc \in {"done", "raised"}
    \/ pc = "searched" /\ caller = "search_diseases_by_symptoms"

\* both loops go forward only
LoopsBounded ==
    /\ Len(inspected) <= 3
    /\ idx <= 4
    /\ Len(fetched) <= Len(medicine_ids)
    /\ med_index <= Len(medicine_ids) + 1
    /\ \A a, b \in 1..Len(fetched) : a < b => fetched[a] < fetched[b]

\* C27: every request, and every direct call of the search, comes to its
\* terminal outcome; the loop over the candidates makes at most three rounds
\* and the loop over the medicine candidates visits each candidate at most
\* once, in order.
C27_RequestTerminates == []LoopsBounded /\ <>Terminated

\* a request answered after the medicine loop went through both candidates
C27_Witness ==
    /\ Terminated
    /\ report # <<>>
    /\ Len(medicine_ids) = 2
    /\ fetched = <<1, 2>>
    /\ med_index = 3

RequestA == IF running = "A" THEN Context ELSE parked
RequestB == IF running = "B" THEN Context ELSE parked

====
